---- MODULE Spec2Model ----
(***************************************************************************)
(* A model of package prompter (src/prompter.go): the Prompter object, its  *)
(* Prompt() operation with the validation-and-retry recursion, the          *)
(* auto-accept test skip(), the validity check inputIsValid() and the       *)
(* lazily cached validation rule regexp().                                  *)
(*                                                                          *)
(* A Go string is modelled as a sequence of one-character strings, so that  *)
(* "" is <<>> and "-1" is <<"-", "1">>.  The text of msg() and errorMsg()   *)
(* is not modelled: a write to standard output is recorded in `out` as the  *)
(* tag of the statement that made it.                                       *)
(***************************************************************************)
EXTENDS Integers, Sequences, FiniteSets, TLC

\* ------------------------------------------------------------------ bounds

\* Recursive re-prompts (line 69) allowed within one top-level Prompt() call.
MaxRetries == 2
\* Top-level Prompt() calls made on the same Prompter instance.
MaxCalls == 2

\* ------------------------------------------------------------- characters

Digits == {"0", "1", "2", "3", "4", "5", "6", "7", "8", "9"}
NonZeroDigits == Digits \ {"0"}
DigitVal(c) ==
    CASE c = "0" -> 0 [] c = "1" -> 1 [] c = "2" -> 2 [] c = "3" -> 3
      [] c = "4" -> 4 [] c = "5" -> 5 [] c = "6" -> 6 [] c = "7" -> 7
      [] c = "8" -> 8 [] c = "9" -> 9
DigitChar(d) == <<"0", "1", "2", "3", "4", "5", "6", "7", "8", "9">>[d + 1]

CR == "\r"
BSL == "\\"

\* The characters regexp.QuoteMeta escapes: \.+*?()|[]{}^$
Special == {BSL, ".", "+", "*", "?", "(", ")", "|", "[", "]", "{", "}", "^", "$"}

UpperCase == <<"A", "B", "N", "X", "Y">>
LowerCase == <<"a", "b", "n", "x", "y">>
\* Simple case folding of the letters the inputs use, as (?i) applies it.
ToLower(c) ==
    IF \E i \in 1..Len(UpperCase) : UpperCase[i] = c
    THEN LowerCase[CHOOSE i \in 1..Len(UpperCase) : UpperCase[i] = c]
    ELSE c

\* ---------------------------------------------------------------- strconv

RECURSIVE ItoaNat(_)
ItoaNat(n) == IF n < 10 THEN <<DigitChar(n)>>
              ELSE ItoaNat(n \div 10) \o <<DigitChar(n % 10)>>
\* strconv.Itoa
Itoa(n) == IF n < 0 THEN <<"-">> \o ItoaNat(-n) ELSE ItoaNat(n)

RECURSIVE DigitsVal(_)
DigitsVal(s) == IF s = <<>> THEN 0
                ELSE 10 * DigitsVal(SubSeq(s, 1, Len(s) - 1)) + DigitVal(s[Len(s)])
AllDigits(s) == s # <<>> /\ \A i \in 1..Len(s) : s[i] \in Digits
\* strconv.Atoi: an optional sign followed by one or more decimal digits.
\* (The inputs are far too short to leave the range of int.)
AtoiOk(s) ==
    IF s # <<>> /\ s[1] \in {"+", "-"} THEN AllDigits(Tail(s)) ELSE AllDigits(s)
AtoiVal(s) ==
    IF s[1] = "-" THEN 0 - DigitsVal(Tail(s))
    ELSE IF s[1] = "+" THEN DigitsVal(Tail(s))
    ELSE DigitsVal(s)

\* ---------------------------------------------------------------- strings

RECURSIVE TrimRightCRLF(_)
\* strings.TrimRight(s, "\r\n")
TrimRightCRLF(s) ==
    IF s # <<>> /\ s[Len(s)] \in {CR, "\n"}
    THEN TrimRightCRLF(SubSeq(s, 1, Len(s) - 1))
    ELSE s

\* bufio.ScanLines: the line without its end-of-line marker, one trailing
\* carriage return dropped.
ScanText(raw) ==
    IF raw # <<>> /\ raw[Len(raw)] = CR THEN SubSeq(raw, 1, Len(raw) - 1) ELSE raw

RECURSIVE Join(_, _)
\* strings.Join
Join(ss, sep) ==
    IF ss = <<>> THEN <<>>
    ELSE IF Len(ss) = 1 THEN ss[1]
    ELSE ss[1] \o sep \o Join(Tail(ss), sep)

\* ----------------------------------------------------------------- regexp

\* Faulty variant: the choices reach the pattern unescaped.
QuoteMeta_raw(v) == v

RECURSIVE QuoteMeta(_)
\* regexp.QuoteMeta: a backslash before every special character.
QuoteMeta(v) ==
    IF v = <<>> THEN <<>>
    ELSE (IF v[1] \in Special THEN <<BSL, v[1]>> ELSE <<v[1]>>) \o QuoteMeta(Tail(v))

\* A compiled pattern (*regexp.Regexp).  Three shapes occur:
\*   kind "all": `.*`                     (allReg)
\*   kind "num": `[0-9]{2,}|[1-9]{1}`     (numReg)
\*   kind "alt": `\A(?:src)\z`, with (?i) in front when icase, where src is
\*               an alternation of sequences of literals, escapes and dots.
\* kind "nil" is the nil pointer.
Nil == [kind |-> "nil", icase |-> FALSE, src |-> <<>>]
allReg == [kind |-> "all", icase |-> FALSE, src |-> <<>>]
numReg == [kind |-> "num", icase |-> FALSE, src |-> <<>>]
Compile(ic, s) == [kind |-> "alt", icase |-> ic, src |-> s]

RECURSIVE Alternatives(_, _)
\* The parse of an alternation: src split at its unescaped bars, each branch
\* a sequence of atoms, an atom being a literal character or the dot.
\* `cur` is the branch being read.
Alternatives(src, cur) ==
    IF src = <<>> THEN <<cur>>
    ELSE IF src[1] = BSL /\ Len(src) >= 2
         THEN Alternatives(SubSeq(src, 3, Len(src)),
                           Append(cur, [any |-> FALSE, c |-> src[2]]))
    ELSE IF src[1] = "|"
         THEN <<cur>> \o Alternatives(Tail(src), <<>>)
    ELSE IF src[1] = "."
         THEN Alternatives(Tail(src), Append(cur, [any |-> TRUE, c |-> "."]))
    ELSE Alternatives(Tail(src), Append(cur, [any |-> FALSE, c |-> src[1]]))

AtomMatches(a, ch, ic) ==
    \/ a.any /\ ch # "\n"
    \/ ~a.any /\ (IF ic THEN ToLower(a.c) = ToLower(ch) ELSE a.c = ch)

\* (*Regexp).MatchString: whether the pattern matches somewhere in s.
MatchString(re, s) ==
    CASE re.kind = "all" -> TRUE
      [] re.kind = "num" ->
            \E i \in 1..Len(s) :
                \/ s[i] \in NonZeroDigits
                \/ i < Len(s) /\ s[i] \in Digits /\ s[i + 1] \in Digits
      [] re.kind = "alt" ->
            LET alts == Alternatives(re.src, <<>>) IN
            \E k \in 1..Len(alts) :
                /\ Len(alts[k]) = Len(s)
                /\ \A i \in 1..Len(s) : AtomMatches(alts[k][i], s[i], re.icase)

\* --------------------------------------------------------------- Prompter

\* The values the fields of a Prompter are drawn from.
ChoiceLists ==
    { <<>>,
      << <<"y">>, <<"n">> >>,
      << <<"y">>, <<"n">>, <<"a", ".">> >> }
Defaults == { <<>>, <<"y">>, <<"x">> }
MenuItems == { -1, 0, 2 }
\* Values of the Regexp field: unset, `\A(?:x|0)\z` and `.*`.
Patterns == { Nil, Compile(FALSE, <<"x", "|", "0">>), allReg }

\* What one line of standard input may hold (without its newline).
RawLines ==
    { <<>>, <<"y">>, <<"Y">>, <<"n">>, <<"x">>, <<"0">>, <<"2">>, <<"4">>,
      <<"5">>, <<"0", "0">>, <<"-", "1">>, <<"a", "b">>, <<"a", ".">>,
      <<"y", "n">>, <<"y", CR>>, <<CR, CR>> }

\* Values of the environment variable GO_PROMPTER_USE_DEFAULT.
EnvValues == { <<>>, <<"1">> }

VARIABLES
    p,        \* the Prompter: its exported fields and the cached rule reg
    env,      \* the process: the environment variable and the two terminals
    stdin,    \* "open", or "closed" once every further read fails
    pc,       \* where the Prompt() call stands
    line,     \* what the read of this cycle gave, before the fallback
    readOk,   \* whether the read of this cycle succeeded
    input,    \* the local variable input
    valid,    \* what inputIsValid answered in this cycle
    applied,  \* the rule regexp() returned to the latest validation
    path,     \* "auto" or "read": the branch line 40 took in this cycle
    out,      \* the writes of this Prompt() call, in order
    reads,    \* reads attempted by this Prompt() call
    retries,  \* recursive re-prompts made by this Prompt() call
    calls,    \* Prompt() calls made on the instance
    result    \* the value the latest Prompt() call returned

vars == <<p, env, stdin, pc, line, readOk, input, valid, applied, path, out,
          reads, retries, calls, result>>

\* Faulty variant: the override variable is not consulted.
skip_noenv(e) == ~e.stdinTTY \/ ~e.stdoutTTY

\* Faulty variant: both descriptors must be off a terminal.
skip_both(e) ==
    IF e.flag # <<>> THEN TRUE ELSE ~e.stdinTTY /\ ~e.stdoutTTY

\* skip()
skip(e) ==
    IF e.flag # <<>> THEN TRUE ELSE ~e.stdinTTY \/ ~e.stdoutTTY

\* The pattern line 173 compiles from the choices.
ChoicesReg(q) ==
    Compile(q.IgnoreCase,
            Join([i \in 1..Len(q.Choices) |-> QuoteMeta(q.Choices[i])], <<"|">>))

\* What a first use caches, by lines 156-174.
Derived(q) ==
    IF q.Choices = <<>> THEN allReg
    ELSE IF q.IsMenu THEN numReg
    ELSE ChoicesReg(q)

\* Faulty variant: the choices' rule is used even when Regexp is set.
regexp_choicesFirst(q) ==
    IF q.reg # Nil THEN [ret |-> q.reg, reg |-> q.reg]
    ELSE IF q.Choices # <<>> THEN [ret |-> Derived(q), reg |-> Derived(q)]
    ELSE IF q.Regexp # Nil THEN [ret |-> q.Regexp, reg |-> q.reg]
    ELSE [ret |-> allReg, reg |-> allReg]

\* Faulty variant: the rule is derived again at every use.
regexp_uncached(q) ==
    IF q.Regexp # Nil THEN [ret |-> q.Regexp, reg |-> q.reg]
    ELSE [ret |-> Derived(q), reg |-> Derived(q)]

\* (*Prompter).regexp: ret is the rule returned, reg the field reg afterwards.
regexp(q) ==
    IF q.Regexp # Nil THEN [ret |-> q.Regexp, reg |-> q.reg]
    ELSE IF q.reg # Nil THEN [ret |-> q.reg, reg |-> q.reg]
    ELSE [ret |-> Derived(q), reg |-> Derived(q)]

\* Faulty variant: the index is bounded by the number of choices.
inputIsValid_strict(q, s) ==
    LET rx == MatchString(regexp(q).ret, s) IN
    IF ~q.IsMenu \/ ~rx THEN rx
    ELSE IF ~AtoiOk(s) THEN FALSE
    ELSE IF AtoiVal(s) > Len(q.Choices) THEN FALSE
    ELSE TRUE

\* (*Prompter).inputIsValid
inputIsValid(q, s) ==
    LET rx == MatchString(regexp(q).ret, s) IN
    IF ~q.IsMenu \/ ~rx THEN rx
    ELSE IF ~AtoiOk(s) THEN FALSE
    ELSE IF AtoiVal(s) > Len(q.Choices) + 1 THEN FALSE
    ELSE TRUE

\* Faulty variant: the default replaces every input.
Fallback_always(q, s) ==
    IF q.IsMenu THEN Itoa(q.DefaultMenuItem) ELSE q.Default

\* Lines 57-63: what an empty input is replaced by.
Fallback(q, s) ==
    IF s = <<>>
    THEN IF q.IsMenu THEN Itoa(q.DefaultMenuItem) ELSE q.Default
    ELSE s

\* Faulty variant: the screen is cleared before the message is written.
RetryWrites_swapped(q) ==
    (IF q.IsMenu THEN <<"clear">> ELSE <<>>) \o <<"err">>

\* Lines 65-68: the writes that follow an invalid input (the clear sequence
\* goes out through the builtin print).
RetryWrites(q) ==
    <<"err">> \o (IF q.IsMenu THEN <<"clear">> ELSE <<>>)

Prompters ==
    [ Choices : ChoiceLists, IgnoreCase : BOOLEAN, Default : Defaults,
      DefaultMenuItem : MenuItems, Regexp : Patterns, NoEcho : BOOLEAN,
      UseDefault : BOOLEAN, IsMenu : BOOLEAN, reg : {Nil} ]

Envs == [ flag : EnvValues, stdinTTY : BOOLEAN, stdoutTTY : BOOLEAN ]

Init ==
    /\ p \in Prompters
    /\ env \in Envs
    /\ stdin = "open"
    /\ pc = "idle"
    /\ line = <<>>
    /\ readOk = FALSE
    /\ input = <<>>
    /\ valid = FALSE
    /\ applied = Nil
    /\ path = "none"
    /\ out = <<>>
    /\ reads = 0
    /\ retries = 0
    /\ calls = 0
    /\ result = <<>>

\* The caller calls Prompt().
Call ==
    /\ pc \in {"idle", "done"}
    /\ calls < MaxCalls
    /\ calls' = calls + 1
    /\ pc' = "msg"
    /\ line' = <<>>
    /\ readOk' = FALSE
    /\ input' = <<>>
    /\ valid' = FALSE
    /\ path' = "none"
    /\ out' = <<>>
    /\ reads' = 0
    /\ retries' = 0
    /\ result' = <<>>
    /\ UNCHANGED <<p, env, stdin, applied>>

\* Line 39: fmt.Print(p.msg())
PrintMsg ==
    /\ pc = "msg"
    /\ out' = Append(out, "msg")
    /\ pc' = "skip"
    /\ UNCHANGED <<p, env, stdin, line, readOk, input, valid, applied, path,
                   reads, retries, calls, result>>

\* Lines 40-42: the auto-accept test.
CheckSkip ==
    /\ pc = "skip"
    /\ IF p.UseDefault \/ skip(env)
       THEN /\ path' = "auto"
            /\ result' = p.Default
            /\ pc' = "done"
       ELSE /\ path' = "read"
            /\ result' = result
            /\ pc' = "read"
    /\ UNCHANGED <<p, env, stdin, line, readOk, input, valid, applied, out,
                   reads, retries, calls>>

\* Lines 51-55: one line from a bufio.Scanner over standard input.
ReadLine ==
    /\ pc = "read"
    /\ ~p.NoEcho
    /\ \/ /\ stdin = "open"
          /\ \E raw \in RawLines :
                line' = TrimRightCRLF(ScanText(raw))
          /\ readOk' = TRUE
          /\ stdin' = stdin
       \/ /\ stdin = "open"
          /\ stdin' \in {"open", "closed"}
          /\ readOk' = FALSE
          /\ line' = <<>>
       \/ /\ stdin = "closed"
          /\ stdin' = stdin
          /\ readOk' = FALSE
          /\ line' = <<>>
    /\ input' = line'
    /\ reads' = reads + 1
    /\ pc' = "fallback"
    /\ UNCHANGED <<p, env, valid, applied, path, out, retries, calls, result>>

\* Lines 45-49: terminal.ReadPassword, then a newline.
ReadPassword ==
    /\ pc = "read"
    /\ p.NoEcho
    /\ \/ /\ stdin = "open"
          /\ \E b \in RawLines : line' = b
          /\ readOk' = TRUE
          /\ stdin' = stdin
       \/ /\ stdin = "open"
          /\ stdin' \in {"open", "closed"}
          /\ readOk' = FALSE
          /\ line' = <<>>
       \/ /\ stdin = "closed"
          /\ stdin' = stdin
          /\ readOk' = FALSE
          /\ line' = <<>>
    /\ input' = line'
    /\ out' = Append(out, "nl")
    /\ reads' = reads + 1
    /\ pc' = "fallback"
    /\ UNCHANGED <<p, env, valid, applied, path, retries, calls, result>>

\* Lines 57-63: the empty input falls back to the default.
Substitute ==
    /\ pc = "fallback"
    /\ input' = Fallback(p, input)
    /\ pc' = "validate"
    /\ UNCHANGED <<p, env, stdin, line, readOk, valid, applied, path, out,
                   reads, retries, calls, result>>

\* Lines 64 and 71: the input is valid and returned.
Accept ==
    /\ pc = "validate"
    /\ inputIsValid(p, input)
    /\ valid' = TRUE
    /\ applied' = regexp(p).ret
    /\ p' = [p EXCEPT !.reg = regexp(p).reg]
    /\ result' = input
    /\ pc' = "done"
    /\ UNCHANGED <<env, stdin, line, readOk, input, path, out, reads, retries,
                   calls>>

\* Lines 64-69: the input is invalid; the error is written and Prompt()
\* calls itself.
Retry ==
    /\ pc = "validate"
    /\ ~inputIsValid(p, input)
    /\ retries < MaxRetries
    /\ valid' = FALSE
    /\ applied' = regexp(p).ret
    /\ p' = [p EXCEPT !.reg = regexp(p).reg]
    /\ out' = out \o RetryWrites(p)
    /\ retries' = retries + 1
    /\ line' = <<>>
    /\ readOk' = FALSE
    /\ input' = <<>>
    /\ path' = "none"
    /\ pc' = "msg"
    /\ UNCHANGED <<env, stdin, reads, calls, result>>

Next ==
    \/ Call
    \/ PrintMsg
    \/ CheckSkip
    \/ ReadLine
    \/ ReadPassword
    \/ Substitute
    \/ Accept
    \/ Retry

Spec == Init /\ [][Next]_vars

\* Between two Prompt() calls the caller assigns an exported field of the
\* Prompter; the unexported reg is out of its reach.
SetChoices ==
    /\ pc = "done"
    /\ \E c \in ChoiceLists : c # p.Choices /\ p' = [p EXCEPT !.Choices = c]
    /\ UNCHANGED <<env, stdin, pc, line, readOk, input, valid, applied, path,
                   out, reads, retries, calls, result>>

SetIgnoreCase ==
    /\ pc = "done"
    /\ p' = [p EXCEPT !.IgnoreCase = ~p.IgnoreCase]
    /\ UNCHANGED <<env, stdin, pc, line, readOk, input, valid, applied, path,
                   out, reads, retries, calls, result>>

SetIsMenu ==
    /\ pc = "done"
    /\ p' = [p EXCEPT !.IsMenu = ~p.IsMenu]
    /\ UNCHANGED <<env, stdin, pc, line, readOk, input, valid, applied, path,
                   out, reads, retries, calls, result>>

SetRegexp ==
    /\ pc = "done"
    /\ \E r \in Patterns : r # p.Regexp /\ p' = [p EXCEPT !.Regexp = r]
    /\ UNCHANGED <<env, stdin, pc, line, readOk, input, valid, applied, path,
                   out, reads, retries, calls, result>>

NextReuse ==
    \/ Call
    \/ PrintMsg
    \/ CheckSkip
    \/ ReadLine
    \/ ReadPassword
    \/ Substitute
    \/ Accept
    \/ Retry
    \/ SetChoices
    \/ SetIgnoreCase
    \/ SetIsMenu
    \/ SetRegexp

\* The reused Prompters start from one default and one default menu item;
\* neither takes part in the derivation of the rule.
InitReuse ==
    /\ Init
    /\ p.Default = <<"y">>
    /\ p.DefaultMenuItem = 2

\* A Prompter whose fields the caller changes between the calls.
SpecReuse == InitReuse /\ [][NextReuse]_vars

\* ------------------------------------------------------------- properties

\* The call has returned a value read from the input (not the auto-accept).
ReturnedInput == pc = "done" /\ path = "read"

\* s is the decimal string of an integer i with 1 <= i.
IsIndexString(s) == AllDigits(s) /\ s[1] # "0"

\* C1: in menu mode every value Prompt() returns, on any return path, is a
\* 1-based index string.
C1_MenuReturnsIndex ==
    (p.IsMenu /\ pc = "done") => IsIndexString(result)

\* s parses as an integer that is at most n + 1.
IndexInBound(s, n) == AtoiOk(s) /\ AtoiVal(s) <= n + 1

\* C2: with Choices and Regexp both set, an input is accepted if and only if
\* it matches the pattern, whatever the other fields are.
C2_PatternAlone ==
    [][(pc = "validate" /\ p.Choices # <<>> /\ p.Regexp # Nil)
        => ((pc' = "done") <=> MatchString(p.Regexp, input))]_vars

\* C2 (amended): with Choices and Regexp both set, what the choices are plays
\* no part: a non-menu Prompter accepts an input if and only if it matches the
\* pattern, and a menu Prompter if and only if it matches the pattern and,
\* further, parses as an integer no greater than len(Choices) + 1.  The
\* accepted input is returned.
C2_PatternGoverns ==
    [][(pc = "validate" /\ p.Choices # <<>> /\ p.Regexp # Nil)
        => /\ (pc' = "done") <=>
                 /\ MatchString(p.Regexp, input)
                 /\ p.IsMenu => IndexInBound(input, Len(p.Choices))
           /\ pc' = "done" => result' = input]_vars

\* A non-menu Prompter has returned "x", which the pattern \A(?:x|0)\z
\* matches and which is none of its choices.
C2_Witness ==
    /\ ReturnedInput
    /\ ~p.IsMenu
    /\ p.Choices = << <<"y">>, <<"n">> >>
    /\ p.Regexp = Compile(FALSE, <<"x", "|", "0">>)
    /\ line = <<"x">>
    /\ result = <<"x">>

\* What is returned for the line read when every input is accepted as it is.
AsIs(q, l) == IF l = <<>> THEN q.Default ELSE l

\* C3: a Prompter with no choices and no pattern, whatever its other fields,
\* accepts every input on the first cycle and returns it as it is, the default
\* standing in for the empty line only.
C3_AcceptAll ==
    (p.Choices = <<>> /\ p.Regexp = Nil)
        => /\ retries = 0
           /\ ReturnedInput => result = AsIs(p, line)

\* C3 (amended): the same of every non-menu Prompter with no choices and no
\* pattern.
C3_AcceptAllNonMenu ==
    (~p.IsMenu /\ p.Choices = <<>> /\ p.Regexp = Nil)
        => /\ retries = 0
           /\ ReturnedInput => result = AsIs(p, line)

\* The empty line, read with no default, has been returned as the empty
\* string; and on another run a non-empty line was returned with a default set.
C3_Witness ==
    /\ ReturnedInput
    /\ ~p.IsMenu /\ p.Choices = <<>> /\ p.Regexp = Nil
    /\ readOk /\ line = <<>> /\ p.Default = <<>>
    /\ result = <<>>

\* C4: the auto-accept path is taken exactly when UseDefault is set, or the
\* environment flag is non-empty, or neither stdin nor stdout is a terminal;
\* otherwise input is read.
C4_SkipWhenNeitherTTY ==
    path # "none"
        => /\ (path = "auto") <=>
                 \/ p.UseDefault
                 \/ env.flag # <<>>
                 \/ (~env.stdinTTY /\ ~env.stdoutTTY)
           /\ path = "auto" => reads = 0
           /\ (path = "read" /\ pc # "read") => reads = retries + 1

\* C4 (amended): the auto-accept path is taken exactly when UseDefault is set,
\* or the environment flag is non-empty, or at least one of stdin and stdout
\* is not a terminal; otherwise input is read.
C4_SkipWhenEitherNotTTY ==
    path # "none"
        => /\ (path = "auto") <=>
                 \/ p.UseDefault
                 \/ env.flag # <<>>
                 \/ ~env.stdinTTY
                 \/ ~env.stdoutTTY
           /\ path = "auto" => reads = 0
           /\ (path = "read" /\ pc # "read") => reads = retries + 1

\* The default was returned unread with stdin a terminal and stdout not one.
C4_Witness ==
    /\ pc = "done" /\ path = "auto"
    /\ ~p.UseDefault /\ env.flag = <<>>
    /\ env.stdinTTY /\ ~env.stdoutTTY
    /\ reads = 0

\* C5: with the override flag set, Prompt() returns Default and never
\* attempts a read, validates, writes an error or retries, for any
\* configuration.
C5_FlagReturnsDefault ==
    env.flag # <<>>
        => /\ reads = 0
           /\ retries = 0
           /\ pc \in {"idle", "msg", "skip", "done"}
           /\ applied = Nil /\ p.reg = Nil
           /\ \A i \in 1..Len(out) : out[i] = "msg"
           /\ pc = "done" => (result = p.Default /\ out = <<"msg">>)

\* A menu whose Default "x" is no valid answer returned it, both descriptors
\* terminals and UseDefault unset, because the flag is set.
C5_Witness ==
    /\ env.flag # <<>> /\ env.stdinTTY /\ env.stdoutTTY /\ ~p.UseDefault
    /\ p.IsMenu /\ Len(p.Choices) = 3 /\ p.Regexp = Nil
    /\ p.Default = <<"x">>
    /\ pc = "done" /\ result = <<"x">>

\* s matches the numeric rule `[0-9]{2,}|[1-9]{1}`: it holds a digit from 1
\* to 9, or two digits in a row.
MatchesNumeric(s) ==
    \E i \in 1..Len(s) :
        \/ s[i] \in {"1", "2", "3", "4", "5", "6", "7", "8", "9"}
        \/ i < Len(s) /\ {s[i], s[i + 1]} \subseteq Digits

\* The cases of a menu of 3 choices with DefaultMenuItem 2: the empty line
\* becomes "2", and "4" is accepted, "5" and "0" are not.
MenuExample ==
    (p.IsMenu /\ p.Regexp = Nil /\ Len(p.Choices) = 3 /\ p.DefaultMenuItem = 2)
        => /\ (pc = "fallback" /\ line = <<>>) => input' = <<"2">>
           /\ (pc = "validate" /\ input \in {<<"2">>, <<"4">>})
                 => (pc' = "done" /\ result' = input)
           /\ (pc = "validate" /\ input \in {<<"5">>, <<"0">>})
                 => pc' = "msg"

\* C6: in menu mode with n choices the input is accepted if and only if it
\* matches the numeric rule, parses as an integer and that integer is at most
\* n + 1, the empty line being replaced by the decimal string of
\* DefaultMenuItem before the check.
C6_MenuRule ==
    [][p.IsMenu
        => /\ pc = "validate"
                => ((pc' = "done") <=>
                       (MatchesNumeric(input) /\ IndexInBound(input, Len(p.Choices))))
           /\ pc = "fallback"
                => input' = (IF line = <<>> THEN Itoa(p.DefaultMenuItem) ELSE line)
           /\ MenuExample]_vars

\* C6 (amended): the same of a menu with at least one choice and no Regexp.
C6_MenuRuleNoPattern ==
    [][(p.IsMenu /\ p.Choices # <<>> /\ p.Regexp = Nil)
        => /\ pc = "validate"
                => ((pc' = "done") <=>
                       (MatchesNumeric(input) /\ IndexInBound(input, Len(p.Choices))))
           /\ pc = "fallback"
                => input' = (IF line = <<>> THEN Itoa(p.DefaultMenuItem) ELSE line)
           /\ MenuExample]_vars

\* A menu of 3 choices with DefaultMenuItem 2 rejected an input, prompted
\* again and returned "4", one more than the number of choices.
C6_Witness ==
    /\ ReturnedInput
    /\ p.IsMenu /\ Len(p.Choices) = 3 /\ p.DefaultMenuItem = 2 /\ p.Regexp = Nil
    /\ retries = 1
    /\ result = <<"4">>

\* The whole of s is the choice c, letter case set aside when ic.
EqualsChoice(s, c, ic) ==
    /\ Len(s) = Len(c)
    /\ \A i \in 1..Len(s) :
          IF ic THEN ToLower(s[i]) = ToLower(c[i]) ELSE s[i] = c[i]

\* C7: a non-menu Prompter with choices and no pattern accepts an input if
\* and only if the whole input is one of the choices read as literal text,
\* letter case ignored exactly when IgnoreCase is set, and returns the input
\* as typed.
C7_LiteralChoice ==
    [][(pc = "validate" /\ ~p.IsMenu /\ p.Choices # <<>> /\ p.Regexp = Nil)
        => /\ (pc' = "done") <=>
                 \E i \in 1..Len(p.Choices) :
                     EqualsChoice(input, p.Choices[i], p.IgnoreCase)
           /\ pc' = "done" => (result' = input /\ input = AsIs(p, line))]_vars

\* With choices y, n and IgnoreCase the line "Y" was returned as "Y".
C7_Witness ==
    /\ ReturnedInput
    /\ ~p.IsMenu /\ p.Regexp = Nil /\ p.IgnoreCase
    /\ p.Choices = << <<"y">>, <<"n">> >>
    /\ line = <<"Y">>
    /\ result = <<"Y">>

\* C8: once the input stream is exhausted or erroring, the failed read counts
\* as empty input, goes through the fallback and the call returns.  (Every
\* later read of a closed stream fails alike, so a re-prompt here is the
\* first round of a recursion that never ends.)
C8_FailedReadReturns ==
    [][(pc = "validate" /\ stdin = "closed" /\ ~readOk) => pc' = "done"]_vars

RECURSIVE Repeat(_, _)
Repeat(s, n) == IF n = 0 THEN <<>> ELSE s \o Repeat(s, n - 1)

\* The writes of a cycle that ends in a retry, and of the running cycle.
CycleWrites ==
    <<"msg">> \o (IF p.NoEcho THEN <<"nl">> ELSE <<>>) \o <<"err">>
              \o (IF p.IsMenu THEN <<"clear">> ELSE <<>>)
PartWrites ==
    IF pc \in {"idle", "msg"} THEN <<>>
    ELSE IF pc \in {"skip", "read"} \/ path = "auto" THEN <<"msg">>
    ELSE <<"msg">> \o (IF p.NoEcho THEN <<"nl">> ELSE <<>>)

\* C9: on the interactive path a value is returned only if inputIsValid
\* passed it in the same cycle; every invalid input is followed by the error
\* message, then in menu mode the clear sequence, then a whole new cycle
\* (message, auto-accept test, read) before anything is returned.
C9_RetryOrder ==
    /\ out = Repeat(CycleWrites, retries) \o PartWrites
    /\ ReturnedInput
          => /\ valid /\ result = input
             /\ inputIsValid(p, result)
             /\ reads = retries + 1
    /\ pc \in {"fallback", "validate"} => (path = "read" /\ reads = retries + 1)

\* A menu returned a value after two rejected inputs.
C9_Witness ==
    /\ ReturnedInput
    /\ p.IsMenu
    /\ retries = 2
    /\ out = <<"msg", "err", "clear", "msg", "err", "clear", "msg">>

\* C10: the cached rule reg, once set, is never replaced; a validation
\* applies the Regexp field when it is set, leaving reg as it was, and else
\* the cached rule, which it derives only when there is none.
C10_RuleCachedOnce ==
    [][/\ p.reg # Nil => p'.reg = p.reg
       /\ p.Regexp # Nil => p'.reg = p.reg
       /\ (pc = "validate" /\ pc' # "validate")
             => applied' = (IF p.Regexp # Nil THEN p.Regexp
                            ELSE IF p.reg # Nil THEN p.reg
                            ELSE p'.reg)]_vars

\* A second call validated with a cached rule that the fields, changed since
\* the first call, would no longer give.
C10_Witness ==
    /\ calls = 2 /\ ReturnedInput
    /\ p.Regexp = Nil
    /\ p.reg # Nil /\ p.reg # Derived(p)
    /\ applied = p.reg

====
